---- MODULE Spec2Model ----
(***************************************************************************)
(* A model of mathbot's calculator entry point (calculator/__main__.py):   *)
(* main(), the file-execution path, the interactive terminal and           *)
(* format_error_place.  The parser, the compiler, the runtime wrapper and  *)
(* the Interpereter are collaborators of the entry point; their behaviour  *)
(* is modelled from their contracts (lifecycle, checkpoints, Calling       *)
(* Cache), the entry point from its code.                                  *)
(***************************************************************************)
EXTENDS Integers, Sequences, FiniteSets, TLC

\* ------------------------------------------------------------------ bounds
MaxLen == 3         \* longest file text
MaxArg == 1         \* largest argument of a function call
MaxLines == 3       \* input lines read by one interactive session

\* --------------------------------------------------------------- constants
TIMEOUT == 5        \* run_with_timeout(interpereter.run_async(), 5)
None == 0           \* Python's None as a result (every value is >= 1)

NL == "\n"
Chars == {"a", NL}

RECURSIVE StringsOfLen(_)
StringsOfLen(n) ==
    IF n = 0 THEN {<<>>}
    ELSE {Append(s, c) : s \in StringsOfLen(n - 1), c \in Chars}

Strings == UNION {StringsOfLen(n) : n \in 0..MaxLen}

\* ---------------------------------------------------- format_error_place
\* str.split('\n')
RECURSIVE split(_)
split(s) ==
    IF \E i \in 1..Len(s) : s[i] = NL
    THEN LET i == CHOOSE k \in 1..Len(s) :
                      s[k] = NL /\ \A j \in 1..(k - 1) : s[j] # NL
         IN  <<SubSeq(s, 1, i - 1)>> \o split(SubSeq(s, i + 1, Len(s)))
    ELSE <<s>>

\* ' ' * n  (empty for n <= 0)
Spaces(n) == [i \in 1..n |-> " "]

\* A mutant of the loop: a position at the end of a line moves on to the
\* next line.
RECURSIVE locateAtOrPast(_, _, _)
locateAtOrPast(lines, line, position) ==
    IF line < Len(lines) - 2 /\ position >= Len(lines[line + 1])
    THEN locateAtOrPast(lines, line + 1, position - (Len(lines[line + 1]) + 1))
    ELSE [line |-> line, position |-> position]

\* The while loop of format_error_place; lines is the padded list, and the
\* Python index lines[line] is lines[line + 1] here (sequences start at 1).
RECURSIVE locate(_, _, _)
locate(lines, line, position) ==
    IF line < Len(lines) - 2 /\ position > Len(lines[line + 1])
    THEN locate(lines, line + 1, position - (Len(lines[line + 1]) + 1))
    ELSE [line |-> line, position |-> position]

\* ERROR_TEMPLATE.format(...): the header's two numbers, then the four rows
\* in the order the template prints them.
ERROR_TEMPLATE(line_num, position, prev, cur, carat, next) ==
    [line_num |-> line_num, position |-> position,
     rows |-> <<prev, cur, carat, next>>]

\* Index i (Python) of the padded list; an index out of range is an
\* IndexError, shown as the row <<"IndexError">>.
Row(lines, i) == IF i + 1 \in 1..Len(lines) THEN lines[i + 1] ELSE <<"IndexError">>

format_error_place(string, position) ==
    LET lines == <<<<>>>> \o split(string) \o <<<<>>>>
        r == locate(lines, 1, position)
    IN  ERROR_TEMPLATE(r.line, r.position,
                       Row(lines, r.line - 1), Row(lines, r.line),
                       Spaces(r.position) \o <<"^">>, Row(lines, r.line + 1))

NoWindow == ERROR_TEMPLATE(0, 0, <<>>, <<>>, <<>>, <<>>)

\* ------------------------------------------------------------ print items
\* One print() call: its kind, its text, and for a rendered window the
\* string and position it was rendered from.
Item(kind, text, src, pos, val, win) ==
    [kind |-> kind, text |-> text, src |-> src, pos |-> pos, val |-> val,
     win |-> win]

Text(kind, text) == Item(kind, text, <<>>, 0, 0, NoWindow)

Value(v) == Item("value", "", <<>>, 0, v, NoWindow)

Window(src, pos) == Item("window", "", src, pos, 0, format_error_place(src, pos))

\* 'Runtime error in', dbg['name']
RuntimeErrorIn(name) == Item("runtime error in", name[1], <<>>, name[2], 0, NoWindow)

\* One row of the :cache dump: str(key) and str(value).
CacheRow(e) == Item("cache", e.key[1], <<>>, e.key[2], e.value, NoWindow)

\* ---------------------------------------------------------------- dicts
\* A Python dict: its entries in insertion order.
Has(d, k) == \E i \in 1..Len(d) : d[i].key = k

Get(d, k) == d[CHOOSE i \in 1..Len(d) : d[i].key = k].value

Put(d, k, v) ==
    IF Has(d, k)
    THEN [i \in 1..Len(d) |-> IF d[i].key = k THEN [key |-> k, value |-> v] ELSE d[i]]
    ELSE Append(d, [key |-> k, value |-> v])

\* ------------------------------------------------------------- exceptions
NoLinking == [present |-> FALSE, name |-> <<"", 0>>, code |-> <<>>, position |-> 0]

Linking(name, code, position) ==
    [present |-> TRUE, name |-> name, code |-> code, position |-> position]

Exc(cls, position, msg, linking) ==
    [cls |-> cls, position |-> position, msg |-> msg, linking |-> linking]

NoExc == Exc("", 0, "", NoLinking)

\* The classes `except Exception` catches: every class of the model but
\* KeyboardInterrupt, which derives from BaseException only.
IsException(cls) == cls # "KeyboardInterrupt"

\* ------------------------------------------------------------ the inputs
\* The text of an interactive source line (input() returns no newline) and
\* the text of the library fragment function g was compiled from.
LineText == <<"a">>
LibCode == <<"a", NL, "a", "a">>
LibName == <<"lib", 0>>

Tree(assign, expr, arg) == [assign |-> assign, expr |-> expr, arg |-> arg]

\* What is behind a line or a file: what parser.parse does with it (a tree,
\* or a fault at an offset 0..len) and, for a tree, the statement it is.
Source(cmd, text, parse, pos, tree) ==
    [cmd |-> cmd, text |-> text, parse |-> parse, pos |-> pos, tree |-> tree]

Control(cmd) == Source(cmd, <<>>, "ok", 0, Tree(FALSE, "none", 0))

ControlCommands == {":tree", ":parsepoint", ":trace", ":cache"}

Faults == {"ParseFailed", "TokenizationFailed"}

\* Interactive statements: `x`, `x = f(n)`, `x = g(n)`, a builtin failure
\* (division by zero), `loop()`, which never ends, and a statement on which
\* the interpreter fails internally.
Functions == {"f", "g", "loop"}

Statements ==
    {Tree(TRUE, e, n) : e \in {"f", "g"}, n \in 0..MaxArg}
    \cup {Tree(FALSE, e, 0) : e \in {"read", "div0", "loop", "crash"}}

SourceLines ==
    {Source("src", LineText, "ok", 0, t) : t \in Statements}
    \cup {Source("src", LineText, f, p, Tree(FALSE, "none", 0)) :
             f \in Faults, p \in 0..Len(LineText)}

FileTrees == {Tree(FALSE, e, 0) : e \in {"value", "div0"}}

Files ==
    {Source("file", s, "ok", 0, t) : s \in Strings, t \in FileTrees}
    \cup UNION {{Source("file", s, f, p, Tree(FALSE, "none", 0)) :
                    f \in Faults, p \in 0..Len(s)} : s \in Strings}

\* parse_arguments(): -t and -c are mutually exclusive.
Arguments ==
    {a \in [interactive : {FALSE}, compile : BOOLEAN, trace : BOOLEAN] :
        ~(a.compile /\ a.trace)}

NoArguments == [interactive |-> TRUE, compile |-> FALSE, trace |-> FALSE]

\* A compiled fragment: the source name and text it came from, its statement.
Fragment(name, text, tree, exportable) ==
    [name |-> name, text |-> text, tree |-> tree, exportable |-> exportable]

\* ------------------------------------------------------------- the state
VARIABLES
    pc,              \* where main() / interactive_terminal() is
    exit_reason,     \* how main() ended: "break", "return" or "raised"
    escaped,         \* the class of the exception that left main()
    args,            \* sys.argv, parsed
    file,            \* the file named on the command line
    line,            \* the line input() returned
    line_count,
    show_tree,
    show_parsepoint,
    interp,          \* Interpereter instances constructed so far
    trace,           \* interpereter.trace
    program,         \* the compiled program: its fragments, in order
    place,           \* the next fragment to execute
    bindings,        \* top-level bindings: name -> value
    cache,           \* interpereter.calling_cache.values, in insertion order
    vm_state,        \* the interpreter's lifecycle state
    frames,          \* the call-frame stack
    ctl,             \* what the interpreter does at its next step
    result,          \* what run() / run_async() returned
    elapsed,         \* seconds since run_with_timeout started
    deadline,        \* the timeout run_with_timeout was given
    exc,             \* the exception raised for this line or file
    calls,           \* collaborator calls made for this line or file
    output,          \* what was printed for this line or file
    last_outcome,    \* how the previous input line ended
    snap,            \* bindings, cache and program size when the line was read
    returned         \* per call key, how many frames returned successfully

vars == <<pc, exit_reason, escaped, args, file, line, line_count, show_tree,
          show_parsepoint, interp, trace, program, place, bindings, cache,
          vm_state, frames, ctl, result, elapsed, deadline, exc, calls,
          output, last_outcome, snap, returned>>

session == <<line, line_count, show_tree, show_parsepoint>>
machine == <<program, place, bindings, cache, vm_state, frames, ctl, result, returned>>
clock == <<elapsed, deadline>>
history == <<last_outcome, snap>>
ending == <<exit_reason, escaped>>

Keys == {<<fn, n>> : fn \in Functions, n \in 0..MaxArg}

Ctl(op, fn, arg, val) == [op |-> op, fn |-> fn, arg |-> arg, val |-> val]
Idle == Ctl("idle", "", 0, 0)

Toggles == {":tree", ":parsepoint", ":trace"}

Flags == <<show_tree, show_parsepoint, trace>>

NoTwice == [on |-> FALSE, flags |-> <<FALSE, FALSE, FALSE>>, count |-> 0]

\* What is remembered when line l is read: the bindings, the cache, the
\* program size, the flags and the line counter before the line, and, when l
\* repeats the toggle read just before it, the flags and the counter before
\* that first toggle.
Snap(l) ==
    [bindings |-> bindings, cache |-> cache, proglen |-> Len(program),
     flags |-> Flags, count |-> line_count,
     twice |-> IF l.cmd \in Toggles /\ line.cmd = l.cmd
               THEN [on |-> TRUE, flags |-> snap.flags, count |-> snap.count]
               ELSE NoTwice]

Init ==
    /\ pc = "main"
    /\ exit_reason = ""
    /\ escaped = ""
    /\ args = NoArguments
    /\ file = Control("")
    /\ line = Control("")
    /\ line_count = 0
    /\ show_tree = FALSE
    /\ show_parsepoint = FALSE
    /\ interp = 0
    /\ trace = FALSE
    /\ program = <<>>
    /\ place = 1
    /\ bindings = <<>>
    /\ cache = <<>>
    /\ vm_state = "NoInterpreter"
    /\ frames = <<>>
    /\ ctl = Idle
    /\ result = None
    /\ elapsed = 0
    /\ deadline = 0
    /\ exc = NoExc
    /\ calls = <<>>
    /\ output = <<>>
    /\ last_outcome = "none"
    /\ snap = [bindings |-> <<>>, cache |-> <<>>, proglen |-> 0,
               flags |-> <<FALSE, FALSE, FALSE>>, count |-> 0, twice |-> NoTwice]
    /\ returned = [k \in Keys |-> 0]

\* ===================================================================== main
\* main(), lines 25-28: no argument starts the interactive terminal, any
\* argument the file-execution path.
main ==
    /\ pc = "main"
    /\ \/ /\ args' = NoArguments
          /\ file' = file
          /\ pc' = "setup"
       \/ /\ args' \in Arguments
          /\ file' \in Files
          /\ pc' = "f_parse"
    /\ UNCHANGED <<session, interp, trace, machine, clock, exc, calls, output,
                   history, ending>>

\* ----------------------------------------------------------- file execution
\* lines 31-34: parse_arguments, proc_filename, open().read(), parser.parse
FileParse ==
    /\ pc = "f_parse"
    /\ calls' = Append(calls, "parse")
    /\ IF file.parse = "ok"
       THEN pc' = "f_wrap" /\ exc' = exc
       ELSE pc' = "f_except" /\ exc' = Exc(file.parse, file.pos, "", NoLinking)
    /\ UNCHANGED <<args, file, session, interp, trace, machine, clock, output,
                   history, ending>>

\* wrap_with_runtime(builder, ast, exportable): composes the program and
\* executes nothing.
wrap_with_runtime(name, text, tree, exportable) ==
    <<Fragment(name, text, tree, exportable)>>

\* line 35
FileWrap ==
    /\ pc = "f_wrap"
    /\ calls' = Append(calls, "wrap_with_runtime")
    /\ program' = wrap_with_runtime(<<"file", 0>>, file.text, file.tree, args.compile)
    /\ pc' = "f_branch"
    /\ UNCHANGED <<args, file, session, interp, trace, place, bindings, cache,
                   vm_state, frames, ctl, result, returned, clock, exc, output,
                   history, ending>>

\* A mutant of the compile branch: the dump is printed and main goes on to
\* run the program.
FileDumpAndRun ==
    /\ pc = "f_branch"
    /\ args.compile
    /\ calls' = Append(calls, "dump")
    /\ output' = Append(output, Text("dump", "btc"))
    /\ pc' = "f_interp"
    /\ UNCHANGED <<args, file, session, interp, trace, machine, clock, exc,
                   history, ending>>

\* lines 36-38: print(btc.dump()); return
FileDump ==
    /\ pc = "f_branch"
    /\ args.compile
    /\ calls' = Append(calls, "dump")
    /\ output' = Append(output, Text("dump", "btc"))
    /\ pc' = "exited"
    /\ exit_reason' = "return"
    /\ UNCHANGED <<args, file, session, interp, trace, machine, clock, exc,
                   history, escaped>>

\* line 36, the branch not taken
FileNoDump ==
    /\ pc = "f_branch"
    /\ ~args.compile
    /\ pc' = "f_interp"
    /\ UNCHANGED <<args, file, session, interp, trace, machine, clock, exc,
                   calls, output, history, ending>>

\* line 39: Interpereter(btc, trace = args.trace)
FileInterpereter ==
    /\ pc = "f_interp"
    /\ calls' = Append(calls, "Interpereter")
    /\ interp' = interp + 1
    /\ trace' = args.trace
    /\ vm_state' = "Ready"
    /\ place' = 1
    /\ pc' = "f_run"
    /\ UNCHANGED <<args, file, session, program, bindings, cache, frames, ctl,
                   result, returned, clock, exc, output, history, ending>>

\* line 40: interpereter.run() starts
FileRun ==
    /\ pc = "f_run"
    /\ vm_state = "Ready"
    /\ calls' = Append(calls, "run")
    /\ vm_state' = "Running"
    /\ pc' = "f_running"
    /\ UNCHANGED <<args, file, session, interp, trace, program, place, bindings,
                   cache, frames, ctl, result, returned, clock, exc, output,
                   history, ending>>

\* line 40: run() returns the value of the program or raises its fault
FileRunEnds ==
    /\ pc = "f_running"
    /\ vm_state = "Running"
    /\ place' = place + 1
    /\ IF program[place].tree.expr = "value"
       THEN /\ vm_state' = "Completed"
            /\ result' = 1
            /\ exc' = exc
            /\ pc' = "f_print"
       ELSE /\ vm_state' = "Faulted"
            /\ result' = result
            /\ exc' = Exc("EvaluationError", 0, "division by zero", NoLinking)
            /\ pc' = "f_except"
    /\ UNCHANGED <<args, file, session, interp, trace, program, bindings, cache,
                   frames, ctl, returned, clock, calls, output, history, ending>>

\* line 41: print(result)
FilePrint ==
    /\ pc = "f_print"
    /\ output' = Append(output, Value(result))
    /\ pc' = "exited"
    /\ exit_reason' = "return"
    /\ UNCHANGED <<args, file, session, interp, trace, machine, clock, exc,
                   calls, history, escaped>>

\* lines 42-43: except parser.ParseFailed
FileParseFailed ==
    /\ pc = "f_except"
    /\ exc.cls = "ParseFailed"
    /\ output' = Append(output, Window(file.text, exc.position))
    /\ pc' = "exited"
    /\ exit_reason' = "return"
    /\ UNCHANGED <<args, file, session, interp, trace, machine, clock, exc,
                   calls, history, escaped>>

\* lines 30-43: no other except clause; the exception leaves main()
FileRaises ==
    /\ pc = "f_except"
    /\ exc.cls # "ParseFailed"
    /\ pc' = "exited"
    /\ exit_reason' = "raised"
    /\ escaped' = exc.cls
    /\ UNCHANGED <<args, file, session, interp, trace, machine, clock, exc,
                   calls, output, history>>

FileNext ==
    \/ FileParse
    \/ FileWrap
    \/ FileDump
    \/ FileNoDump
    \/ FileInterpereter
    \/ FileRun
    \/ FileRunEnds
    \/ FilePrint
    \/ FileParseFailed
    \/ FileRaises

\* ===================================================== interactive_terminal
\* lines 90-94: the flags, the builder, the runtime-only program and the one
\* Interpereter of the session
Setup ==
    /\ pc = "setup"
    /\ show_tree' = FALSE
    /\ show_parsepoint' = FALSE
    /\ program' = wrap_with_runtime(LibName, LibCode, Tree(FALSE, "none", 0), FALSE)
    /\ interp' = interp + 1
    /\ trace' = FALSE
    /\ vm_state' = "Ready"
    /\ place' = 1
    /\ pc' = "boot"
    /\ UNCHANGED <<args, file, line, line_count, bindings, cache, frames, ctl,
                   result, returned, clock, exc, calls, output, history, ending>>

\* line 95: interpereter.run() starts on the runtime-only program
BootRun ==
    /\ pc = "boot"
    /\ vm_state = "Ready"
    /\ vm_state' = "Running"
    /\ pc' = "booting"
    /\ UNCHANGED <<args, file, session, interp, trace, program, place, bindings,
                   cache, frames, ctl, result, returned, clock, exc, calls,
                   output, history, ending>>

\* lines 95-96: run() returns; line_count = 0
BootDone ==
    /\ pc = "booting"
    /\ vm_state = "Running"
    /\ vm_state' = "Completed"
    /\ place' = place + 1
    /\ line_count' = 0
    /\ pc' = "input"
    /\ UNCHANGED <<args, file, line, show_tree, show_parsepoint, interp, trace,
                   program, bindings, cache, frames, ctl, result, returned,
                   clock, exc, calls, output, history, ending>>

\* lines 99-100, common to every branch of the loop body: line_count += 1,
\* line = input('> '); what the previous line left is cleared.
Read(l) ==
    /\ pc = "input"
    /\ line_count < MaxLines
    /\ line_count' = line_count + 1
    /\ line' = l
    /\ exc' = NoExc
    /\ calls' = <<>>
    /\ snap' = Snap(l)

\* lines 101-102: the empty line ends the loop
Break ==
    /\ Read(Control(""))
    /\ pc' = "exited"
    /\ exit_reason' = "break"
    /\ output' = <<>>
    /\ UNCHANGED <<args, file, show_tree, show_parsepoint, interp, trace,
                   machine, clock, last_outcome, escaped>>

\* line 100: input() raises EOFError at the end of standard input; the call
\* is outside the try statement.
InputRaises ==
    /\ pc = "input"
    /\ line_count < MaxLines
    /\ line_count' = line_count + 1
    /\ pc' = "exited"
    /\ exit_reason' = "raised"
    /\ escaped' = "EOFError"
    /\ UNCHANGED <<args, file, line, show_tree, show_parsepoint, interp, trace,
                   machine, clock, exc, calls, output, history>>

\* A mutant of the toggle: the flag is set, not flipped.
ToggleTreeSets ==
    /\ Read(Control(":tree"))
    /\ show_tree' = TRUE
    /\ output' = <<>>
    /\ last_outcome' = "command"
    /\ UNCHANGED <<pc, args, file, show_parsepoint, interp, trace, machine,
                   clock, ending>>

\* lines 103-104
ToggleTree ==
    /\ Read(Control(":tree"))
    /\ show_tree' = ~show_tree
    /\ output' = <<>>
    /\ last_outcome' = "command"
    /\ UNCHANGED <<pc, args, file, show_parsepoint, interp, trace, machine,
                   clock, ending>>

\* lines 105-106
ToggleParsepoint ==
    /\ Read(Control(":parsepoint"))
    /\ show_parsepoint' = ~show_parsepoint
    /\ output' = <<>>
    /\ last_outcome' = "command"
    /\ UNCHANGED <<pc, args, file, show_tree, interp, trace, machine, clock,
                   ending>>

\* lines 107-108
ToggleTrace ==
    /\ Read(Control(":trace"))
    /\ trace' = ~trace
    /\ output' = <<>>
    /\ last_outcome' = "command"
    /\ UNCHANGED <<pc, args, file, show_tree, show_parsepoint, interp, machine,
                   clock, ending>>

\* lines 109-111
DumpCache ==
    /\ Read(Control(":cache"))
    /\ output' = [i \in 1..Len(cache) |-> CacheRow(cache[i])]
    /\ last_outcome' = "command"
    /\ UNCHANGED <<pc, args, file, show_tree, show_parsepoint, interp, trace,
                   machine, clock, ending>>

\* line 112: any other line enters the try statement
ReadSource ==
    /\ \E l \in SourceLines : Read(l)
    /\ output' = <<>>
    /\ pc' = "parse"
    /\ UNCHANGED <<args, file, show_tree, show_parsepoint, interp, trace,
                   machine, clock, last_outcome, ending>>

\* A mutant of the try body: a parse fault is swallowed and the line goes on
\* to be compiled.
DoParseContinue ==
    /\ pc = "parse"
    /\ calls' = Append(calls, "parse")
    /\ output' = IF show_tree THEN Append(output, Text("tree", "ast")) ELSE output
    /\ pc' = "prepare"
    /\ UNCHANGED <<args, file, session, interp, trace, machine, clock, exc,
                   history, ending>>

\* lines 114-116: parser.parse(line, source_name = 'iterm_' + str(line_count))
DoParse ==
    /\ pc = "parse"
    /\ calls' = Append(calls, "parse")
    /\ IF line.parse = "ok"
       THEN /\ output' = IF show_tree THEN Append(output, Text("tree", "ast"))
                                      ELSE output
            /\ exc' = exc
            /\ pc' = "prepare"
       ELSE /\ output' = output
            /\ exc' = Exc(line.parse, line.pos, "", NoLinking)
            /\ pc' = "except"
    /\ UNCHANGED <<args, file, session, interp, trace, machine, clock, history,
                   ending>>

\* Interpereter.prepare_extra_code(tree): the compiler's extend appends one
\* fragment to the program behind this interpreter; what was compiled
\* before stays as it was.
prepare_extra_code(prog, name, text, tree) ==
    Append(prog, Fragment(name, text, tree, FALSE))

\* lines 117-121
DoPrepare ==
    /\ pc = "prepare"
    /\ calls' = Append(calls, "prepare_extra_code")
    /\ program' = prepare_extra_code(program, <<"iterm", line_count>>, line.text, line.tree)
    /\ vm_state' = "Ready"
    /\ pc' = "start"
    /\ UNCHANGED <<args, file, session, interp, trace, place, bindings, cache,
                   frames, ctl, result, returned, clock, exc, output, history,
                   ending>>

\* line 124 and run_with_timeout, lines 55-58: run_async() under wait_for
\* with timeout 5, driven by loop.run_until_complete.  The task yields
\* before the statement.
StartRun ==
    /\ pc = "start"
    /\ vm_state = "Ready"
    /\ calls' = Append(calls, "run_async")
    /\ deadline' = TIMEOUT
    /\ elapsed' = 0
    /\ vm_state' = "Running"
    /\ ctl' = Ctl("begin", "", 0, 0)
    /\ pc' = "run"
    /\ UNCHANGED <<args, file, session, interp, trace, program, place, bindings,
                   cache, frames, result, returned, exc, output, history, ending>>

\* --------------------------------------------------------- the interpreter
\* What a step of run_async leaves alone.
VmFrame ==
    UNCHANGED <<args, file, session, interp, trace, program, calls, output,
                history, ending>>

Executing == pc = "run" /\ vm_state = "Running"

Top == frames[Len(frames)]

\* A mutant of the lookup: every lookup misses.
lookupAlwaysMiss(c, fn, arg) == [hit |-> FALSE, value |-> 0]

\* CallingCache.lookup: a hit with its value, or a miss.
lookup(c, fn, arg) ==
    IF Has(c, <<fn, arg>>) THEN [hit |-> TRUE, value |-> Get(c, <<fn, arg>>)]
                           ELSE [hit |-> FALSE, value |-> 0]

\* CallingCache.store
store(c, fn, arg, v) == Put(c, <<fn, arg>>, v)

\* The task yields and waits to be resumed: a checkpoint.
Suspend(c) ==
    /\ vm_state' = "Suspended"
    /\ ctl' = c
    /\ UNCHANGED <<place, bindings, cache, frames, result, returned, exc, pc,
                   clock>>

\* run_with_timeout returns or raises: wait_for drops its timer.
TimerDropped == elapsed' = 0 /\ deadline' = 0

\* The statement ends: an assignment commits its binding and yields no
\* value, an expression yields its value.
Complete(v) ==
    /\ vm_state' = "Completed"
    /\ ctl' = Idle
    /\ place' = place + 1
    /\ IF program[place].tree.assign
       THEN bindings' = Put(bindings, "x", v) /\ result' = None
       ELSE bindings' = bindings /\ result' = v
    /\ pc' = "result"
    /\ TimerDropped
    /\ UNCHANGED <<cache, frames, returned, exc>>

\* A fault unwinds every frame up to the statement boundary and leaves
\* run_async as exception e.
Fault(e) ==
    /\ vm_state' = "Faulted"
    /\ frames' = <<>>
    /\ ctl' = Idle
    /\ place' = place + 1
    /\ exc' = e
    /\ pc' = "except"
    /\ TimerDropped
    /\ UNCHANGED <<bindings, cache, result, returned>>

\* The top frame returns v: the result is stored, the frame destroyed.
FrameReturn(v) ==
    /\ cache' = store(cache, Top.fn, Top.arg, v)
    /\ returned' = [returned EXCEPT ![<<Top.fn, Top.arg>>] = @ + 1]
    /\ frames' = SubSeq(frames, 1, Len(frames) - 1)
    /\ ctl' = Ctl("resume", "", 0, v)
    /\ UNCHANGED <<vm_state, place, bindings, result, exc, pc, clock>>

\* The checkpoint before the top-level statement.
VmYield ==
    /\ Executing
    /\ ctl.op = "begin"
    /\ Suspend(Ctl("stmt", "", 0, 0))
    /\ VmFrame

\* The top-level statement starts.
VmStmt ==
    /\ Executing
    /\ ctl.op = "stmt"
    /\ LET frag == program[place]
           e == frag.tree.expr
       IN  CASE e = "read" ->
                  IF Has(bindings, "x")
                  THEN Complete(Get(bindings, "x"))
                  ELSE Fault(Exc("EvaluationError", 0, "undefined name",
                                 Linking(frag.name, frag.text, 0)))
             [] e \in Functions -> Suspend(Ctl("call", e, frag.tree.arg, 0))
             [] e = "div0" ->
                  Fault(Exc("EvaluationError", 0, "division by zero", NoLinking))
             [] OTHER -> Fault(Exc("Exception", 0, "internal error", NoLinking))
    /\ VmFrame

\* A call, resumed after the checkpoint at its boundary: a cache hit yields
\* the stored value and creates no frame, a miss creates the frame.
VmCall ==
    /\ Executing
    /\ ctl.op = "call"
    /\ LET r == lookup(cache, ctl.fn, ctl.arg)
       IN  IF r.hit
           THEN /\ ctl' = Ctl("resume", "", 0, r.value)
                /\ frames' = frames
           ELSE /\ ctl' = Ctl("body", "", 0, 0)
                /\ frames' = Append(frames, [fn |-> ctl.fn, arg |-> ctl.arg])
    /\ UNCHANGED <<vm_state, place, bindings, cache, result, returned, exc, pc,
                   clock>>
    /\ VmFrame

\* The call a function body makes: f(n) calls f(n - 1), g(n) calls f(n),
\* loop() calls f(0), again and again.
Callee(fr) ==
    CASE fr.fn = "f" -> Ctl("call", "f", fr.arg - 1, 0)
      [] fr.fn = "g" -> Ctl("call", "f", fr.arg, 0)
      [] OTHER -> Ctl("call", "f", 0, 0)

\* A function body starts: f(0) = 1, f(n) = f(n - 1) + 1; g(n) calls f(n)
\* and then fails on an undefined name; loop() never returns.
VmBody ==
    /\ Executing
    /\ ctl.op = "body"
    /\ IF Top.fn = "f" /\ Top.arg = 0
       THEN FrameReturn(1)
       ELSE Suspend(Callee(Top))
    /\ VmFrame

\* A value comes back: to the statement, or to the frame that called.
VmResume ==
    /\ Executing
    /\ ctl.op = "resume"
    /\ IF frames = <<>>
       THEN Complete(ctl.val)
       ELSE CASE Top.fn = "f" -> FrameReturn(ctl.val + 1)
              [] Top.fn = "g" ->
                   Fault(Exc("EvaluationError", 0, "undefined name",
                             Linking(program[1].name, program[1].text, 2)))
              [] OTHER -> Suspend(Callee(Top))
    /\ VmFrame

\* Time passes while a function body executes, a second at a time.
Tick ==
    /\ Executing
    /\ frames # <<>>
    /\ ctl.op \in {"body", "resume"}
    /\ elapsed < deadline
    /\ elapsed' = elapsed + 1
    /\ UNCHANGED <<pc, args, file, session, interp, trace, machine, deadline,
                   exc, calls, output, history, ending>>

\* run_with_timeout, lines 55-58: the event loop resumes the suspended task
\* while the deadline of wait_for has not passed.
Resume ==
    /\ pc = "run"
    /\ vm_state = "Suspended"
    /\ elapsed < deadline
    /\ vm_state' = "Running"
    /\ UNCHANGED <<pc, args, file, session, interp, trace, program, place,
                   bindings, cache, frames, ctl, result, returned, clock, exc,
                   calls, output, history, ending>>

\* A mutant of the cancellation: the task is cancelled while it runs.
CancelAnywhere ==
    /\ pc = "run"
    /\ vm_state \in {"Running", "Suspended"}
    /\ elapsed >= deadline
    /\ vm_state' = "Cancelled"
    /\ frames' = <<>>
    /\ ctl' = Idle
    /\ place' = place + 1
    /\ exc' = Exc("TimeoutError", 0, "", NoLinking)
    /\ pc' = "except"
    /\ TimerDropped
    /\ UNCHANGED <<args, file, session, interp, trace, program, bindings,
                   cache, result, returned, calls, output, history, ending>>

\* run_with_timeout, lines 55-58: the deadline has passed, wait_for cancels
\* the task at the checkpoint it waits at and raises TimeoutError.  The
\* statement in flight is discarded: its frames go, nothing was committed.
Cancel ==
    /\ pc = "run"
    /\ vm_state = "Suspended"
    /\ elapsed >= deadline
    /\ vm_state' = "Cancelled"
    /\ frames' = <<>>
    /\ ctl' = Idle
    /\ place' = place + 1
    /\ exc' = Exc("TimeoutError", 0, "", NoLinking)
    /\ pc' = "except"
    /\ TimerDropped
    /\ UNCHANGED <<args, file, session, interp, trace, program, bindings,
                   cache, result, returned, calls, output, history, ending>>

\* line 124: KeyboardInterrupt reaches loop.run_until_complete (taken
\* here while the task waits at its first checkpoint)
Interrupt ==
    /\ pc = "run"
    /\ vm_state = "Suspended"
    /\ ctl.op = "stmt"
    /\ exc' = Exc("KeyboardInterrupt", 0, "", NoLinking)
    /\ pc' = "except"
    /\ UNCHANGED <<args, file, session, interp, trace, machine, clock, calls,
                   output, history, ending>>

VmNext ==
    \/ VmYield
    \/ VmStmt
    \/ VmCall
    \/ VmBody
    \/ VmResume
    \/ Tick
    \/ Resume
    \/ Cancel
    \/ Interrupt

\* ------------------------------------------------------ results and faults
\* What every branch that ends a line leaves alone.
LineFrame ==
    UNCHANGED <<args, file, session, interp, trace, program, place, bindings,
                cache, vm_state, frames, ctl, returned, clock, exc, calls,
                snap, ending>>

\* lines 125-126
PrintResult ==
    /\ pc = "result"
    /\ output' = IF result # None THEN Append(output, Value(result)) ELSE output
    /\ last_outcome' = "value"
    /\ result' = None
    /\ pc' = "input"
    /\ LineFrame

\* A mutant of the except clause: the window is rendered from the current
\* input line.
EvaluationErrorReportFromLine(e, cur) ==
    (IF ~e.linking.present
     THEN <<Text("text", "No debugging information available for this error.")>>
     ELSE <<RuntimeErrorIn(e.linking.name), Window(cur, e.linking.position)>>)
    \o <<Text("message", e.msg), Text("rule", e.msg)>>

\* lines 128-136: what the clause prints for fault e (cur is the input line)
EvaluationErrorReport(e, cur) ==
    (IF ~e.linking.present
     THEN <<Text("text", "No debugging information available for this error.")>>
     ELSE <<RuntimeErrorIn(e.linking.name),
            Window(e.linking.code, e.linking.position)>>)
    \o <<Text("message", e.msg), Text("rule", e.msg)>>

\* A mutant of the clause: the fault is reported and raised again.
HandleEvaluationErrorReraise ==
    /\ pc = "except"
    /\ exc.cls = "EvaluationError"
    /\ output' = output \o EvaluationErrorReport(exc, line.text)
    /\ pc' = "exited"
    /\ exit_reason' = "raised"
    /\ escaped' = exc.cls
    /\ UNCHANGED <<args, file, session, interp, trace, machine, clock, exc,
                   calls, history>>

\* lines 127-136: except errors.EvaluationError
HandleEvaluationError ==
    /\ pc = "except"
    /\ exc.cls = "EvaluationError"
    /\ output' = output \o EvaluationErrorReport(exc, line.text)
    /\ last_outcome' = "fault"
    /\ pc' = "input"
    /\ UNCHANGED result
    /\ LineFrame

\* lines 137-139: except parser.ParseFailed
HandleParseFailed ==
    /\ pc = "except"
    /\ exc.cls = "ParseFailed"
    /\ output' = output \o <<Text("text", "Parse error"),
                             Window(line.text, exc.position)>>
    /\ last_outcome' = "parse"
    /\ pc' = "input"
    /\ UNCHANGED result
    /\ LineFrame

\* lines 140-142: except parser.TokenizationFailed
HandleTokenizationFailed ==
    /\ pc = "except"
    /\ exc.cls = "TokenizationFailed"
    /\ output' = output \o <<Text("text", "Tokenization error"),
                             Window(line.text, exc.position)>>
    /\ last_outcome' = "token"
    /\ pc' = "input"
    /\ UNCHANGED result
    /\ LineFrame

\* A mutant of the last clause: the exception is printed and raised again.
HandleExceptionReraise ==
    /\ pc = "except"
    /\ exc.cls \notin {"EvaluationError", "ParseFailed", "TokenizationFailed"}
    /\ IsException(exc.cls)
    /\ output' = Append(output, Text("traceback", exc.cls))
    /\ pc' = "exited"
    /\ exit_reason' = "raised"
    /\ escaped' = exc.cls
    /\ UNCHANGED <<args, file, session, interp, trace, machine, clock, exc,
                   calls, history>>

\* lines 143-144: except Exception: traceback.print_exc()
HandleException ==
    /\ pc = "except"
    /\ exc.cls \notin {"EvaluationError", "ParseFailed", "TokenizationFailed"}
    /\ IsException(exc.cls)
    /\ output' = Append(output, Text("traceback", exc.cls))
    /\ last_outcome' = IF exc.cls = "TimeoutError" THEN "timeout" ELSE "exception"
    /\ pc' = "input"
    /\ UNCHANGED result
    /\ LineFrame

\* lines 113-144: no clause matches an exception that is not an Exception;
\* it leaves interactive_terminal() and main().
Propagate ==
    /\ pc = "except"
    /\ ~IsException(exc.cls)
    /\ pc' = "exited"
    /\ exit_reason' = "raised"
    /\ escaped' = exc.cls
    /\ UNCHANGED <<args, file, session, interp, trace, machine, clock, exc,
                   calls, output, history>>

TerminalNext ==
    \/ Setup
    \/ BootRun
    \/ BootDone
    \/ Break
    \/ InputRaises
    \/ ToggleTree
    \/ ToggleParsepoint
    \/ ToggleTrace
    \/ DumpCache
    \/ ReadSource
    \/ DoParse
    \/ DoPrepare
    \/ StartRun
    \/ PrintResult
    \/ HandleEvaluationError
    \/ HandleParseFailed
    \/ HandleTokenizationFailed
    \/ HandleException
    \/ Propagate

Next == main \/ FileNext \/ TerminalNext \/ VmNext

Spec == Init /\ [][Next]_vars

\* =================================================================== claims
Interactive == args.interactive /\ pc \notin {"main", "setup", "boot", "booting"}

FullCalls == <<"parse", "prepare_extra_code", "run_async">>

\* What was printed for the line, the optional tree dump aside.
Report == SelectSeq(output, LAMBDA it : it.kind # "tree")

\* C1: for an interactive source line the calls are parse, then
\* prepare_extra_code, then run_async, each once and each only after the one
\* before returned; run_async runs under the deadline of 5 seconds; after a
\* ParseFailed or TokenizationFailed only parse was called and the program has
\* no new fragment.
C1_ParsePrepareRun ==
    (Interactive /\ line.cmd = "src") =>
        /\ pc = "parse" => calls = <<>>
        /\ pc = "prepare" => calls = <<"parse">> /\ line.parse = "ok"
        /\ pc = "start" => calls = <<"parse", "prepare_extra_code">>
        /\ pc \in {"run", "result"} => calls = FullCalls
        /\ pc = "run" => deadline = TIMEOUT /\ elapsed <= TIMEOUT
        /\ pc \in {"parse", "prepare"} => Len(program) = snap.proglen
        /\ pc \in {"except", "input", "exited"} =>
              IF line.parse = "ok"
              THEN calls = FullCalls /\ Len(program) = snap.proglen + 1
              ELSE /\ calls = <<"parse">>
                   /\ exc.cls = line.parse
                   /\ Len(program) = snap.proglen

C1_Witness ==
    /\ Interactive
    /\ pc = "result"
    /\ calls = FullCalls
    /\ Len(program) = snap.proglen + 1

C3_OnlyEmptyLineEnds ==
    Interactive =>
        /\ (exc.cls = "EvaluationError" /\ pc \in {"except", "input"}) =>
              /\ bindings = snap.bindings
              /\ cache = snap.cache
              /\ interp = 1
        /\ pc = "exited" => exit_reason = "break" /\ line.cmd = ""

\* C3, amended: after an EvaluationError the session goes on with the same
\* interpreter, the bindings are those of before the line and every cache
\* entry of before the line is still there, unchanged; no exception derived
\* from Exception raised in the try body ends the session; the session ends
\* by the empty line, by input() raising, or by an exception that is not an
\* Exception.
C3_FaultKeepsSession ==
    Interactive =>
        /\ (exc.cls = "EvaluationError" /\ pc \in {"except", "input"}) =>
              /\ vm_state = "Faulted"
              /\ bindings = snap.bindings
              /\ Len(cache) >= Len(snap.cache)
              /\ SubSeq(cache, 1, Len(snap.cache)) = snap.cache
              /\ frames = <<>>
              /\ interp = 1
        /\ pc = "exited" =>
              \/ exit_reason = "break" /\ line.cmd = "" /\ escaped = ""
              \/ exit_reason = "raised" /\ escaped = "EOFError"
              \/ exit_reason = "raised" /\ escaped = exc.cls /\ ~IsException(escaped)

C3_Witness ==
    /\ Interactive
    /\ pc = "input"
    /\ last_outcome = "fault"
    /\ exc.cls = "EvaluationError"
    /\ Has(bindings, "x")
    /\ Len(cache) > Len(snap.cache)

\* C4: within one execution the lifecycle takes only the transitions Ready ->
\* Running, Running -> Completed, Faulted or Suspended, Suspended -> Running
\* and Suspended -> Cancelled (so Cancelled is reached from Suspended only and
\* is left by no transition); a new execution starts Ready, when the
\* interpreter is constructed or prepare_extra_code queues a fragment.
Lifecycle ==
    {<<"Ready", "Running">>, <<"Running", "Completed">>, <<"Running", "Faulted">>,
     <<"Running", "Suspended">>, <<"Suspended", "Running">>,
     <<"Suspended", "Cancelled">>}

C5_CacheOnceAndSound ==
    Interactive =>
        /\ \A i \in 1..Len(cache) :
              /\ cache[i].key[1] = "f"
              /\ cache[i].value = cache[i].key[2] + 1
              /\ returned[cache[i].key] >= 1
              /\ \A j \in 1..Len(cache) : cache[j].key = cache[i].key => j = i
        /\ \A k \in Keys : returned[k] <= 1 /\ (returned[k] = 1 => Has(cache, k))
        /\ \A j \in 1..Len(frames) : ~Has(cache, <<frames[j].fn, frames[j].arg>>)
        /\ (pc = "run" /\ ctl.op = "resume" /\ frames = <<>>) =>
              ctl.val = program[place].tree.arg + 1

\* The second invocation: the key was cached when the line was read, and the
\* value comes back to the statement with no frame.
C5_Witness ==
    /\ Interactive
    /\ pc = "run"
    /\ ctl.op = "resume"
    /\ frames = <<>>
    /\ Has(snap.cache, <<"f", 1>>)
    /\ program[place].tree = Tree(TRUE, "f", 1)
    /\ returned[<<"f", 1>>] = 1
    /\ ctl.val = 2

\* C6: an EvaluationError without a linking record is reported by the
\* sentence that no debugging information is available, with no fragment
\* name and no window; one with a record by the record's name and a window
\* rendered from the record's code and position; the message is printed in
\* both cases.
C6_FaultReport ==
    (Interactive /\ pc = "input" /\ exc.cls = "EvaluationError") =>
        IF ~exc.linking.present
        THEN Report = <<Text("text", "No debugging information available for this error."),
                        Text("message", exc.msg), Text("rule", exc.msg)>>
        ELSE /\ Len(Report) = 4
             /\ Report[1] = RuntimeErrorIn(exc.linking.name)
             /\ Report[2].kind = "window"
             /\ Report[2].src = exc.linking.code
             /\ Report[2].pos = exc.linking.position
             /\ Report[2].win = format_error_place(exc.linking.code, exc.linking.position)
             /\ Report[3] = Text("message", exc.msg)

C6_Witness ==
    /\ Interactive
    /\ pc = "input"
    /\ exc.cls = "EvaluationError"
    /\ exc.linking.present
    /\ exc.linking.code # line.text
    /\ Len(Report) = 4

\* C7: a TokenizationFailed never leaves the entry point, in either mode; it
\* is reported by a window at its offset in the source, and only parse was
\* called.
C7_TokenizationRecoverable ==
    exc.cls = "TokenizationFailed" =>
        /\ escaped # "TokenizationFailed"
        /\ pc \in {"input", "exited"} =>
              /\ calls = <<"parse">>
              /\ \E i \in 1..Len(output) :
                    /\ output[i].kind = "window"
                    /\ output[i].src = (IF args.interactive THEN line.text ELSE file.text)
                    /\ output[i].pos = exc.position

\* C8: file execution parses once, wraps once, and then either dumps (with
\* exportable set, no interpreter, no run) or runs once and prints the
\* result, never both; a ParseFailed gives the window and neither.
Count(seq, x) == Cardinality({i \in 1..Len(seq) : seq[i] = x})

C8_DumpOrRun ==
    (~args.interactive /\ pc # "main") =>
        /\ Count(calls, "parse") <= 1
        /\ Count(calls, "wrap_with_runtime") <= 1
        /\ Count(calls, "run") <= 1
        /\ ~(Count(calls, "dump") > 0 /\ Count(calls, "run") > 0)
        /\ pc = "f_branch" => vm_state = "NoInterpreter" /\ interp = 0
        /\ (pc = "exited" /\ file.parse = "ok" /\ args.compile) =>
              /\ calls = <<"parse", "wrap_with_runtime", "dump">>
              /\ program[1].exportable
              /\ output = <<Text("dump", "btc")>>
              /\ interp = 0
              /\ vm_state = "NoInterpreter"
              /\ exit_reason = "return"
        /\ (pc = "exited" /\ file.parse = "ok" /\ ~args.compile) =>
              /\ calls = <<"parse", "wrap_with_runtime", "Interpereter", "run">>
              /\ ~program[1].exportable
              /\ interp = 1
              /\ IF exit_reason = "return"
                 THEN vm_state = "Completed" /\ output = <<Value(result)>>
                 ELSE vm_state = "Faulted" /\ output = <<>>
        /\ (pc = "exited" /\ file.parse = "ParseFailed") =>
              /\ calls = <<"parse">>
              /\ output = <<Window(file.text, file.pos)>>
              /\ program = <<>>
              /\ interp = 0
              /\ exit_reason = "return"

C8_Witness ==
    /\ ~args.interactive
    /\ pc = "exited"
    /\ args.compile
    /\ calls = <<"parse", "wrap_with_runtime", "dump">>
    /\ output = <<Text("dump", "btc")>>

\* C9: for a string with lines l_1..l_n and an offset p in 0..len, the window
\* names line k in 1..n and column c in 0..len(l_k) with p = the sum over
\* i < k of (len(l_i) + 1), plus c; its rows are l_(k-1) (empty for k = 1),
\* l_k, c spaces and a caret, l_(k+1) (empty for k = n).
RECURSIVE join(_)
join(L) == IF Len(L) = 1 THEN L[1] ELSE L[1] \o <<NL>> \o join(Tail(L))

RECURSIVE LineStart(_, _)
LineStart(L, k) == IF k = 1 THEN 0 ELSE LineStart(L, k - 1) + Len(L[k - 1]) + 1

WindowRight(it) ==
    LET L == split(it.src)
        n == Len(L)
        k == it.win.line_num
        c == it.win.position
    IN  /\ join(L) = it.src
        /\ \A i \in 1..n : \A j \in 1..Len(L[i]) : L[i][j] # NL
        /\ k \in 1..n
        /\ c \in 0..Len(L[k])
        /\ it.pos = LineStart(L, k) + c
        /\ it.win.rows = <<IF k = 1 THEN <<>> ELSE L[k - 1],
                           L[k],
                           Spaces(c) \o <<"^">>,
                           IF k = n THEN <<>> ELSE L[k + 1]>>

C9_WindowPlace ==
    \A i \in 1..Len(output) :
        (output[i].kind = "window" /\ output[i].pos \in 0..Len(output[i].src)) =>
            WindowRight(output[i])

\* The end-of-input offset of a text of several lines.
C9_Witness ==
    \E i \in 1..Len(output) :
        /\ output[i].kind = "window"
        /\ output[i].pos = Len(output[i].src)
        /\ output[i].win.line_num >= 2
        /\ output[i].win.position >= 1

\* C10: a control command goes from input to input in one step.  It flips
\* its own flag and no other, leaves the program, the bindings, the cache
\* and the interpreter alone, calls no collaborator, and :cache prints the
\* entries; the same toggle twice gives back the flags of before the first.
ControlStep == Interactive /\ pc = "input" /\ pc' = "input"

OwnFlagOnly ==
    /\ line'.cmd \in ControlCommands
    /\ show_tree' = (IF line'.cmd = ":tree" THEN ~show_tree ELSE show_tree)
    /\ show_parsepoint' =
          (IF line'.cmd = ":parsepoint" THEN ~show_parsepoint ELSE show_parsepoint)
    /\ trace' = (IF line'.cmd = ":trace" THEN ~trace ELSE trace)
    /\ UNCHANGED <<machine, interp>>
    /\ calls' = <<>>
    /\ line'.cmd = ":cache" => output' = [i \in 1..Len(cache) |-> CacheRow(cache[i])]
    /\ snap'.twice.on => Flags' = snap'.twice.flags

\* C10 as stated: the command changes nothing else, so the line counter
\* stays, and after the same toggle twice it is the counter of before.
C10_OnlyOwnState ==
    [][ControlStep =>
          /\ OwnFlagOnly
          /\ line_count' = line_count
          /\ snap'.twice.on => line_count' = snap'.twice.count]_vars

\* C10, amended: besides its own flag the command advances the line counter
\* by one, as every line read does; after the same toggle twice the flags
\* are those of before the first and the counter is two further.
C10_OwnFlagAndCounter ==
    [][ControlStep =>
          /\ OwnFlagOnly
          /\ line_count' = line_count + 1
          /\ snap'.twice.on => line_count' = snap'.twice.count + 2]_vars

C10_Witness ==
    /\ Interactive
    /\ pc = "input"
    /\ snap.twice.on
    /\ line.cmd = ":trace"
    /\ Has(cache, <<"f", 0>>)

====
